---- MODULE Spec2Model ----
(***************************************************************************)
(* mimic: an in-process terminal for tests.  A Mimic owns a go-expect      *)
(* console (the raw, consuming byte stream the Expect calls read) and a   *)
(* vt10x terminal (the rendered grid the Contains calls and Viewer read). *)
(*                                                                         *)
(* Text is a sequence of one-character strings; "ESC" stands for the byte  *)
(* 0x1b.  The pseudo-terminal is taken as a byte pipe: what Send writes is *)
(* what Expect reads, in order.  A read deadline expires only when no byte *)
(* is readable.                                                            *)
(***************************************************************************)
EXTENDS Integers, Sequences, FiniteSets, TLC

VARIABLES
    columns,    \* mimicOpt.columns, fixed by NewMimic
    rows,       \* mimicOpt.rows, fixed by NewMimic
    written,    \* every byte the raw stream has accepted, in order (history)
    pending,    \* bytes of the raw stream not yet read by console.Expect
    terminal,   \* the vt10x terminal state
    closed,     \* Close has run
    call,       \* the outstanding Expect or Contains call
    last,       \* the most recently returned Expect or Contains call
    rendered,   \* every byte the send observer gave terminal.Write, in order (history)
    now,        \* the clock, in milliseconds
    idle,       \* the WaitForIdle call: its caller, its polling goroutine, its context
    other,      \* the outstanding call of a second goroutine on the same Mimic
    sent,       \* what the most recent console.Send gave its observers
    suite,      \* the test suite: its test cases, its instances, its watchdog
    built,      \* what NewMimic built: the options given, the Mimic's durations
    fcall       \* the latest call of a function that has no effect: arguments, result

vars == <<columns, rows, written, pending, terminal, closed, call, last,
          rendered, now, idle, other, sent, suite, built, fcall>>

----------------------------------------------------------------------------
(* Bounds and input sets *)

\* longest raw stream of the small scenarios
MaxStream == 3

\* idleDuration and maxIdleWait of the small scenarios, and the last tick of
\* the clock, in milliseconds
IdleDuration == 2
MaxIdleWait == 4
MaxTime == 6

ESC == "ESC"

\* the SGR reset sequence ESC [ m
SGR == <<ESC, "[", "m">>

\* geometries <<rows, columns>> of the small scenarios
Geometries == {<<2, 2>>}

\* messages of the small scenarios
Writes == {<<"a">>, <<"b">>, SGR}

\* patterns of the small scenarios, as their source text
Patterns == {<<"a">>, <<"a", ".">>, <<"^", "a", "b">>, <<"b", "$">>}

Repeat(s, n) == [i \in 1..(n * Len(s)) |-> s[((i - 1) % Len(s)) + 1]]

\* the literal scenario: "Hi" 16 times on a 24x30 terminal
HiRows == 24
HiColumns == 30
HiText == Repeat(<<"H", "i">>, 16)
HiNeedles == {HiText, Repeat(<<"H", "i">>, 15), <<"H", "i">>}

----------------------------------------------------------------------------
(* Text helpers *)

\* strings.Contains(h, n)
Contains(h, n) ==
    \E i \in 0..(Len(h) - Len(n)) : SubSeq(h, i + 1, i + Len(n)) = n

\* bytes the stripansi expression takes between ESC and the final byte
AnsiPrefixBytes == {"[", "]", "(", ")", "#", ";", "?"}

\* final bytes of the stripansi expression among the characters used here
AnsiFinalBytes == {"m", "H", "i", "c"}

RECURSIVE SkipAnsiPrefix(_, _)
SkipAnsiPrefix(s, j) ==
    IF j <= Len(s) /\ s[j] \in AnsiPrefixBytes THEN SkipAnsiPrefix(s, j + 1) ELSE j

\* the first ESC of s at or after i, or 0
NextEsc(s, i) ==
    LET at == {j \in i..Len(s) : s[j] = ESC}
    IN  IF at = {} THEN 0 ELSE CHOOSE j \in at : \A k \in at : j <= k

RECURSIVE StripFrom(_, _)
\* s from i on without the matches of the ANSI expression: a match is ESC,
\* any prefix bytes, one final byte; an ESC that starts no match stays
StripFrom(s, i) ==
    LET e == NextEsc(s, i)
    IN  IF e = 0 THEN SubSeq(s, i, Len(s))
        ELSE LET j == SkipAnsiPrefix(s, e + 1)
             IN  IF j <= Len(s) /\ s[j] \in AnsiFinalBytes
                 THEN SubSeq(s, i, e - 1) \o StripFrom(s, j + 1)
                 ELSE SubSeq(s, i, e) \o StripFrom(s, e + 1)

\* stripansi.String: every match of the ANSI expression removed
StripAnsi(s) == StripFrom(s, 1)

WhiteSpace == {" ", "\n"}

\* strings.TrimSpace: s without its leading and trailing white space
TrimSpace(s) ==
    LET solid == {i \in 1..Len(s) : s[i] \notin WhiteSpace}
    IN  IF solid = {} THEN <<>>
        ELSE SubSeq(s, CHOOSE i \in solid : \A k \in solid : i <= k,
                       CHOOSE i \in solid : \A k \in solid : i >= k)

----------------------------------------------------------------------------
(* Patterns: regexp.MustCompile and Regexp.Match on the subset ^ . $ *)

\* regexp.Compile gives no error for p: of the bytes used here "(" opens a
\* group that nothing closes and "*" has nothing to repeat when it comes first
Compiles(p) ==
    /\ \A i \in 1..Len(p) : p[i] # "("
    /\ p # <<>> => p[1] # "*"

\* regexp.MustCompile returns for every pattern of the list
MustCompile(pattern) == \A i \in 1..Len(pattern) : Compiles(pattern[i])

Compile(p) ==
    LET bol == p # <<>> /\ p[1] = "^"
        eol == p # <<>> /\ p[Len(p)] = "$"
        from == IF bol THEN 2 ELSE 1
        to == IF eol THEN Len(p) - 1 ELSE Len(p)
    IN  [bol |-> bol, eol |-> eol, body |-> SubSeq(p, from, to)]

ReMatchAt(re, text, i) ==
    \A k \in 1..Len(re.body) :
        IF re.body[k] = "." THEN text[i + k - 1] # "\n"
        ELSE text[i + k - 1] = re.body[k]

\* Regexp.Match / Regexp.MatchString: an unanchored search
ReMatch(re, text) ==
    \E i \in 1..(Len(text) - Len(re.body) + 1) :
        /\ re.bol => i = 1
        /\ re.eol => i + Len(re.body) - 1 = Len(text)
        /\ ReMatchAt(re, text, i)

----------------------------------------------------------------------------
(* Matchers: what console.Expect hands to Match is a buffer or an error *)

Buffer(b) == [isBuf |-> TRUE, b |-> b, e |-> "nil"]
ReadError(e) == [isBuf |-> FALSE, b |-> <<>>, e |-> e]

\* the *fs.PathError{Op: "read"} of an expired read deadline
ErrTimeout == "read i/o timeout"
\* io.EOF
ErrEOF == "EOF"
\* the error of a read on a closed console (io.EOF or a closed file: not a
\* *fs.PathError of a read timeout)
ErrClosed == "closed"

\* faulty variant: the first FlushMatcher, which matches whatever it is given
FlushMatcherAlways(v) == TRUE

\* FlushMatcher.Match: only the *fs.PathError of a read timeout matches
FlushMatcherMatch(v) == ~v.isBuf /\ v.e = ErrTimeout

\* faulty variant: the needle is looked for in the raw buffer, escapes included
PlainStringMatcherRaw(v, S) == v.isBuf /\ Contains(v.b, S)

\* faulty variant: the stripped buffer has to equal the needle
PlainStringMatcherExact(v, S) == v.isBuf /\ StripAnsi(v.b) = S

PlainStringMatcherMatch(v, S) == v.isBuf /\ Contains(StripAnsi(v.b), S)

RegexpMatcherMatch(v, Re) == v.isBuf /\ ReMatch(Re, StripAnsi(v.b))

\* EOFMatcher.Match: only io.EOF matches
EOFMatcherMatch(v) == ~v.isBuf /\ v.e = ErrEOF

MatcherMatch(m, v) ==
    CASE m.type = "Flush" -> FlushMatcherMatch(v)
      [] m.type = "EOF" -> EOFMatcherMatch(v)
      [] m.type = "PlainString" -> PlainStringMatcherMatch(v, m.c)
      [] m.type = "Regexp" -> RegexpMatcherMatch(v, Compile(m.c))

\* Matcher.Criteria: struct{}{} of FlushMatcher, io.EOF of EOFMatcher, S of
\* PlainStringMatcher, Re of RegexpMatcher
MatcherCriteria(m) ==
    CASE m.type = "Flush" -> "struct{}{}"
      [] m.type = "EOF" -> ErrEOF
      [] OTHER -> m.c

\* the loop of AnyMatcher.Match over Matchers from member i on: the number of
\* members it has tried when it returns, and what it returns
RECURSIVE AnyMatcherLoop(_, _, _)
AnyMatcherLoop(Ms, v, i) ==
    IF i > Len(Ms) THEN [tried |-> Len(Ms), match |-> FALSE]
    ELSE IF MatcherMatch(Ms[i], v) THEN [tried |-> i, match |-> TRUE]
    ELSE AnyMatcherLoop(Ms, v, i + 1)

\* faulty variant: every member has to match
AnyMatcherMatchAll(Ms, v) ==
    [tried |-> Len(Ms), match |-> \A i \in 1..Len(Ms) : MatcherMatch(Ms[i], v)]

\* AnyMatcher{Matchers: Ms}.Match(v)
AnyMatcherMatch(Ms, v) == AnyMatcherLoop(Ms, v, 1)

\* AnyMatcher{Matchers: Ms}.Criteria()
AnyMatcherCriteria(Ms) == [i \in 1..Len(Ms) |-> MatcherCriteria(Ms[i])]

\* internal.String(strs...)
String(strs) == [i \in 1..Len(strs) |-> [type |-> "PlainString", c |-> strs[i]]]

\* internal.Regexp(res...)
Regexp(res) == [i \in 1..Len(res) |-> [type |-> "Regexp", c |-> res[i]]]

\* the option ContainsString/ContainsPattern pass: one FlushMatcher
Flush == <<[type |-> "Flush", c |-> <<>>]>>

\* faulty variant: every matcher of the list has to match v
OptsMatchAll(matchers, v) ==
    \A i \in 1..Len(matchers) : MatcherMatch(matchers[i], v)

\* ExpectOpts.Match: some matcher of the list matches v
OptsMatch(matchers, v) ==
    \E i \in 1..Len(matchers) : MatcherMatch(matchers[i], v)

\* faulty variant: a Contains call expects its criteria on the raw stream, as
\* the first ContainsString and ContainsPattern did
MatchersOnStream(c) ==
    CASE c.op = "ExpectString" -> String(c.args)
      [] c.op = "ExpectPattern" -> Regexp(c.args)
      [] c.op = "ContainsString" -> String(c.args)
      [] OTHER -> Regexp(c.args)

\* the matchers of an outstanding call
Matchers(c) ==
    CASE c.op = "ExpectString" -> String(c.args)
      [] c.op = "ExpectPattern" -> Regexp(c.args)
      [] OTHER -> Flush

----------------------------------------------------------------------------
(* The vt10x terminal: a rows x columns grid of glyphs and a cursor *)

BlankLine == [x \in 1..columns |-> " "]

NewTerminal(r, c) ==
    [lines |-> [y \in 1..r |-> [x \in 1..c |-> " "]],
     x |-> 0, y |-> 0, wrapNext |-> FALSE, state |-> "parse"]

\* State.newline(firstCol): scroll at the bottom row, else go one row down
Newline(t, firstCol) ==
    LET nx == IF firstCol THEN 0 ELSE t.x
    IN  IF t.y = rows - 1
        THEN [t EXCEPT !.lines = [y \in 1..rows |->
                                     IF y < rows THEN t.lines[y + 1] ELSE BlankLine],
                       !.x = nx, !.wrapNext = FALSE]
        ELSE [t EXCEPT !.y = t.y + 1, !.x = nx, !.wrapNext = FALSE]

\* faulty variant: no automatic wrap, the cursor stays on the last column
PutGlyphNoWrap(t, c) ==
    LET t2 == [t EXCEPT !.lines[t.y + 1][t.x + 1] = c]
    IN  IF t.x + 1 < columns THEN [t2 EXCEPT !.x = t.x + 1] ELSE t2

\* a printable rune: wrap if the last write filled the row, set the cell, advance
PutGlyph(t, c) ==
    LET t1 == IF t.wrapNext THEN Newline(t, TRUE) ELSE t
        t2 == [t1 EXCEPT !.lines[t1.y + 1][t1.x + 1] = c]
    IN  IF t1.x + 1 < columns
        THEN [t2 EXCEPT !.x = t1.x + 1, !.wrapNext = FALSE]
        ELSE [t2 EXCEPT !.wrapNext = TRUE]

\* faulty variant: the parser knows no control sequence introducer, the byte
\* after ESC ends the escape
TermPutNoCsi(t, c) ==
    CASE t.state = "parse" ->
            IF c = ESC THEN [t EXCEPT !.state = "esc"] ELSE PutGlyph(t, c)
      [] OTHER ->
            IF c = ESC THEN [t EXCEPT !.state = "esc"]
            ELSE [t EXCEPT !.state = "parse"]

\* State.put: one rune through the parser; ESC c is the reset to the initial
\* state (RIS)
TermPut(t, c) ==
    CASE t.state = "parse" ->
            IF c = ESC THEN [t EXCEPT !.state = "esc"] ELSE PutGlyph(t, c)
      [] t.state = "esc" ->
            IF c = ESC THEN t
            ELSE IF c = "[" THEN [t EXCEPT !.state = "csi"]
            ELSE IF c = "c" THEN NewTerminal(rows, columns)
            ELSE [t EXCEPT !.state = "parse"]
      [] t.state = "csi" ->
            IF c = ESC THEN [t EXCEPT !.state = "esc"]
            ELSE [t EXCEPT !.state = "parse"]

RECURSIVE TermWrite(_, _)
\* Terminal.Write: every rune of msg in order
TermWrite(t, msg) ==
    IF msg = <<>> THEN t ELSE TermWrite(TermPut(t, Head(msg)), Tail(msg))

\* Terminal.String: every row in full, each followed by a line break
TerminalString(t) ==
    LET r == Len(t.lines)
        c == Len(t.lines[1])
    IN  [i \in 1..(r * (c + 1)) |->
            IF (i - 1) % (c + 1) = c THEN "\n"
            ELSE t.lines[((i - 1) \div (c + 1)) + 1][((i - 1) % (c + 1)) + 1]]

\* faulty variant: the first Viewer.String, which alters an empty string unless
\* Trim is set
ViewerStringAltered(t, stripAnsi, trim) ==
    LET original == TerminalString(t)
        altered == IF trim THEN TrimSpace(original) ELSE <<>>
    IN  IF stripAnsi THEN StripAnsi(altered) ELSE altered

\* Viewer.String
ViewerString(t, stripAnsi, trim) ==
    LET original == TerminalString(t)
        trimmed == IF trim THEN TrimSpace(original) ELSE original
    IN  IF stripAnsi THEN StripAnsi(trimmed) ELSE trimmed

----------------------------------------------------------------------------
(* State *)

\* no call is outstanding
NoCall == [op |-> "none", args |-> <<>>, pc |-> "none", buf |-> <<>>, start |-> 0]

\* no call has returned yet
\* failed, contents: the fields of a PatternError
NoLast == [op |-> "none", args |-> <<>>, ok |-> FALSE, err |-> "nil", buf |-> <<>>,
           start |-> 0, end |-> 0, quiet |-> FALSE, failed |-> <<>>, contents |-> <<>>]

\* no write has been made.  msg, num, err: what console.Send gave its observers
NoSent == [msg |-> <<>>, num |-> 0, err |-> "nil"]

\* the tests of a suite, by the key BeforeTest gives them, and the key that
\* Suite.caller gives a function of the suite that is not a test
Keys == {"MyTests_TestA", "MyTests_TestB"}
Helper == "MyTests_helper"

\* what Suite.caller returns when runtime.Caller fails, and the error of
\* Suite.Mimic then
NoKey == ""
ErrNoKey == "unable to determine name of calling test function"

\* the most instances a suite run makes; an instance is a number from 1, 0 is nil
MaxInstances == 3
Instances == 1..MaxInstances

\* Suite.Mimic has not been called
NoRet == [test |-> "none", caller |-> "none", inst |-> 0, err |-> "nil", panic |-> FALSE]

\* a suite after initialize.  testCases: -1 where the map has no entry, else
\* the mimic of the entry; created: the instances made so far; closes: the
\* Close calls on each instance; running, done, down: the test under way, the
\* tests finished, TearDownSuite has run.  History: closedBy (who called
\* Close), made (the instances Suite.Mimic stored for a test), shared (the
\* instances given to SetSuiteMimic), given (the first instance Suite.Mimic
\* returned in a test), ret (the latest return of Suite.Mimic), downAt (the
\* time of TearDownSuite).  The watchdog of WithMaxRuntime: ctx is b.ctx.Err(),
\* deadline the deadline of b.ctx, quit the channel b.quit, dog where the
\* goroutine is, log what it wrote to the test log, failed what it marked
NoSuite ==
    [testCases |-> [k \in Keys |-> -1], suiteMimic |-> 0, created |-> 0,
     closes |-> [i \in Instances |-> 0], running |-> "none", done |-> {},
     down |-> FALSE, closedBy |-> [i \in Instances |-> {}],
     made |-> [k \in Keys |-> {}], shared |-> {}, given |-> [k \in Keys |-> 0],
     ret |-> NoRet, downAt |-> -1, ctx |-> "nil", deadline |-> -1, quit |-> "open",
     dog |-> "none", log |-> <<>>, failed |-> FALSE]

\* Terminal.Cursor: the cursor with its attributes, place and state; a new
\* terminal has the default colours as its attributes
Cursor(t) ==
    [attr |-> "default", x |-> t.x, y |-> t.y,
     state |-> IF t.wrapNext THEN "wrapNext" ELSE "none"]

\* vt10x.Cursor{}, the zero value
EmptyCursor == [attr |-> "zero", x |-> 0, y |-> 0, state |-> "none"]

\* no WaitForIdle call has been made.  caller: where the calling goroutine is;
\* result: what WaitForIdle returned; err: timeoutContext.Err(); poll: where
\* the polling goroutine is; coord, started: its variables; wake: the end of
\* its sleep; doneClosed: close(done) has run; settled, prev, since: history
\* (the polling goroutine found the terminal settled; its latest sample of the
\* cursor; the time of the first of its latest run of equal samples)
NoIdle ==
    [caller |-> "none", result |-> "none", err |-> "nil", deadline |-> 0,
     poll |-> "none", coord |-> EmptyCursor, started |-> 0, wake |-> 0,
     doneClosed |-> FALSE, settled |-> FALSE, prev |-> EmptyCursor, since |-> 0]

\* no function of the package has been applied
NoApplied == [f |-> "none"]

\* the place of the next unread byte in the raw stream
Position == Len(written) - Len(pending)

\* faulty variant: the two durations take each other's default
mimicOptSwapped ==
    [w |-> "Discard", columns |-> 132, rows |-> 24,
     maxIdleTimeout |-> 250, idleDuration |-> 5 * 1000]

\* the mimicOpt NewMimic starts from, durations in milliseconds
mimicOpt ==
    [w |-> "Discard", columns |-> 132, rows |-> 24,
     maxIdleTimeout |-> 5 * 1000, idleDuration |-> 250]

\* the options, as the values NewMimic is given
WithIdleTimeout(timeout) == [name |-> "WithIdleTimeout", a |-> timeout, b |-> 0]

WithIdleDuration(duration) == [name |-> "WithIdleDuration", a |-> duration, b |-> 0]

WithSize(r, c) == [name |-> "WithSize", a |-> r, b |-> c]

\* opt(o): what an option does to the mimicOpt
ApplyOption(o, opt) ==
    CASE opt.name = "WithIdleTimeout" -> [o EXCEPT !.maxIdleTimeout = opt.a]
      [] opt.name = "WithIdleDuration" -> [o EXCEPT !.idleDuration = opt.a]
      [] opt.name = "WithSize" -> [o EXCEPT !.rows = opt.a, !.columns = opt.b]

\* for _, opt := range opts { opt(o) }
RECURSIVE ApplyOptions(_, _)
ApplyOptions(o, opts) ==
    IF opts = <<>> THEN o ELSE ApplyOptions(ApplyOption(o, Head(opts)), Tail(opts))

\* the Mimic NewMimic returns for opts: its durations, and the options (history)
MimicOf(opts) ==
    LET o == ApplyOptions(mimicOpt, opts)
    IN  [opts |-> opts, rows |-> o.rows, columns |-> o.columns,
         maxIdleWait |-> o.maxIdleTimeout, idleDuration |-> o.idleDuration]

\* the options of the small scenarios
SmallOptions(r, c) ==
    <<WithSize(r, c), WithIdleTimeout(MaxIdleWait), WithIdleDuration(IdleDuration)>>

\* faulty variant: the terminal is given the rows as its width
NewMimicSwapped(r, c) ==
    /\ rows = c
    /\ columns = r
    /\ terminal = NewTerminal(c, r)
    /\ written = <<>>
    /\ pending = <<>>
    /\ closed = FALSE
    /\ call = NoCall
    /\ last = NoLast
    /\ rendered = <<>>
    /\ now = 0
    /\ idle = NoIdle
    /\ other = NoCall
    /\ sent = NoSent
    /\ suite = NoSuite
    /\ fcall = NoApplied
    /\ built = MimicOf(SmallOptions(r, c))

\* NewMimic with WithSize(r, c) and the durations of the small scenarios
NewMimic(r, c) ==
    /\ rows = r
    /\ columns = c
    /\ terminal = NewTerminal(r, c)
    /\ written = <<>>
    /\ pending = <<>>
    /\ closed = FALSE
    /\ call = NoCall
    /\ last = NoLast
    /\ rendered = <<>>
    /\ now = 0
    /\ idle = NoIdle
    /\ other = NoCall
    /\ sent = NoSent
    /\ suite = NoSuite
    /\ fcall = NoApplied
    /\ built = MimicOf(SmallOptions(r, c))

\* NewMimic(opts...)
NewMimicOf(opts) ==
    LET m == MimicOf(opts)
    IN  /\ rows = m.rows
        /\ columns = m.columns
        /\ terminal = NewTerminal(m.rows, m.columns)
        /\ built = m
        /\ written = <<>>
        /\ pending = <<>>
        /\ closed = FALSE
        /\ call = NoCall
        /\ last = NoLast
        /\ rendered = <<>>
        /\ now = 0
        /\ idle = NoIdle
        /\ other = NoCall
        /\ sent = NoSent
        /\ suite = NoSuite
    /\ fcall = NoApplied

Init == \E g \in Geometries : NewMimic(g[1], g[2])

InitHi == NewMimic(HiRows, HiColumns)

----------------------------------------------------------------------------
(* Writing and closing *)

\* WriteString: console.Send writes str to the pty, the send observer of
\* NewMimic then applies it to the terminal
WriteString(str) ==
    /\ ~closed
    /\ str # <<>>
    /\ written' = written \o str
    /\ pending' = pending \o str
    /\ terminal' = TermWrite(terminal, str)
    /\ rendered' = rendered \o str
    /\ sent' = [msg |-> str, num |-> Len(str), err |-> "nil"]
    /\ last' = [last EXCEPT !.quiet = FALSE]
    /\ UNCHANGED <<columns, rows, built, fcall, closed, call, now, idle, other, suite>>

\* Close
Close ==
    /\ ~closed
    /\ closed' = TRUE
    /\ UNCHANGED <<columns, rows, built, fcall, written, pending, terminal, call, last>>
    /\ UNCHANGED <<rendered, now, idle, other, sent, suite>>

----------------------------------------------------------------------------
(* console.Expect: one rune at a time, the matchers after every rune *)

\* the record of a call that returns having read buf, the stream now at end;
\* quiet holds until the next write
Returned(c, ok, err, buf, end) ==
    [op |-> c.op, args |-> c.args, ok |-> ok, err |-> err, buf |-> buf,
     start |-> c.start, end |-> end, quiet |-> TRUE, failed |-> <<>>, contents |-> <<>>]

Begin(op, args) ==
    /\ call.op = "none"
    /\ call' = [op |-> op, args |-> args, pc |-> "read", buf |-> <<>>,
                start |-> Position]
    /\ UNCHANGED <<columns, rows, built, fcall, written, pending, terminal, closed, last>>
    /\ UNCHANGED <<rendered, now, idle, other, sent, suite>>

ExpectString(str) == Begin("ExpectString", str)

\* regexp.MustCompile panics: the call ends there, before console.Expect
Panic(op, args) ==
    /\ call.op = "none"
    /\ last' = Returned([NoCall EXCEPT !.op = op, !.args = args, !.start = Position],
                        FALSE, "panic", <<>>, Position)
    /\ UNCHANGED <<columns, rows, built, fcall, written, pending, terminal, closed, call>>
    /\ UNCHANGED <<rendered, now, idle, other, sent, suite>>

ExpectPattern(pattern) ==
    IF MustCompile(pattern) THEN Begin("ExpectPattern", pattern)
    ELSE Panic("ExpectPattern", pattern)

ContainsString(str) == Begin("ContainsString", str)

ContainsPattern(pattern) ==
    IF MustCompile(pattern) THEN Begin("ContainsPattern", pattern)
    ELSE Panic("ContainsPattern", pattern)

\* faulty variant: the byte after the rune is dropped from the stream
ReadRuneSkip(p) ==
    [r |-> Head(p), rest |-> IF Len(p) > 1 THEN Tail(Tail(p)) ELSE Tail(p)]

\* runeReader.ReadRune on the stream p: the rune and what stays unread
ReadRune(p) == [r |-> Head(p), rest |-> Tail(p)]

\* faulty variant: the terminal is one of the writers Expect copies its runes to
ExpectReadRuneEcho ==
    /\ call.pc = "read"
    /\ ~closed
    /\ pending # <<>>
    /\ LET got == ReadRune(pending)
           buf == Append(call.buf, got.r)
       IN  /\ pending' = got.rest
           /\ terminal' = TermPut(terminal, got.r)
           /\ IF OptsMatch(Matchers(call), Buffer(buf))
              THEN /\ last' = Returned(call, TRUE, "nil", buf, Len(written) - Len(got.rest))
                   /\ call' = NoCall
              ELSE /\ call' = [call EXCEPT !.buf = buf]
                   /\ last' = last
    /\ UNCHANGED <<columns, rows, built, fcall, written, closed>>
    /\ UNCHANGED <<rendered, now, idle, other, sent, suite>>

\* one turn of the loop of console.Expect with a rune to read
ExpectReadRune ==
    /\ call.pc = "read"
    /\ ~closed
    /\ pending # <<>>
    /\ LET got == ReadRune(pending)
           buf == Append(call.buf, got.r)
       IN  /\ pending' = got.rest
           /\ IF OptsMatch(Matchers(call), Buffer(buf))
              THEN /\ last' = Returned(call, TRUE, "nil", buf, Len(written) - Len(got.rest))
                   /\ call' = NoCall
              ELSE /\ call' = [call EXCEPT !.buf = buf]
                   /\ last' = last
    /\ UNCHANGED <<columns, rows, built, fcall, written, terminal, closed>>
    /\ UNCHANGED <<rendered, now, idle, other, sent, suite>>

\* the error a read returns when no rune arrives
ReadErr == IF closed THEN ErrClosed ELSE ErrTimeout

\* faulty variant: a call that fails puts the bytes it read back on the stream
ExpectReadErrorUnread ==
    /\ call.pc = "read"
    /\ closed \/ pending = <<>>
    /\ IF OptsMatch(Matchers(call), ReadError(ReadErr))
       THEN /\ call' = [call EXCEPT !.pc = "eval"]
            /\ last' = last
            /\ pending' = pending
       ELSE /\ last' = Returned(call, FALSE, ReadErr, call.buf, call.start)
            /\ call' = NoCall
            /\ pending' = call.buf \o pending
    /\ UNCHANGED <<columns, rows, built, fcall, written, terminal, closed>>
    /\ UNCHANGED <<rendered, now, idle, other, sent, suite>>

\* one turn of the loop of console.Expect whose read fails
ExpectReadError ==
    /\ call.pc = "read"
    /\ closed \/ pending = <<>>
    /\ IF OptsMatch(Matchers(call), ReadError(ReadErr))
       THEN \* only the flush of a Contains call: Expect returns nil
            /\ call' = [call EXCEPT !.pc = "eval"]
            /\ last' = last
       ELSE /\ last' = Returned(call, FALSE, ReadErr, call.buf, Position)
            /\ call' = NoCall
    /\ UNCHANGED <<columns, rows, built, fcall, written, pending, terminal, closed>>
    /\ UNCHANGED <<rendered, now, idle, other, sent, suite>>

\* faulty variant: one string in the view is enough
EvalStringAny(contents, str) ==
    LET failed == {i \in 1..Len(str) : ~PlainStringMatcherMatch(Buffer(contents), str[i])}
    IN  Cardinality(failed) < Len(str) \/ Len(str) = 0

\* ContainsString after the flush: every string is in the view
EvalString(contents, str) ==
    LET failed == {i \in 1..Len(str) : ~PlainStringMatcherMatch(Buffer(contents), str[i])}
    IN  Cardinality(failed) = 0

\* ContainsPattern after the flush: some pattern is given and every one matches
EvalPattern(contents, pattern) ==
    LET failed == {i \in 1..Len(pattern) : ~ReMatch(Compile(pattern[i]), contents)}
    IN  Len(pattern) > 0 /\ Cardinality(failed) = 0

\* ContainsString/ContainsPattern after the flush: snapshot and evaluation
ContainsEvaluate ==
    /\ call.pc = "eval"
    /\ LET contents == ViewerString(terminal, TRUE, TRUE)
           ok == IF call.op = "ContainsString"
                 THEN EvalString(contents, call.args)
                 ELSE EvalPattern(contents, call.args)
       IN  last' = Returned(call, ok, "nil", call.buf, Position)
    /\ call' = NoCall
    /\ UNCHANGED <<columns, rows, built, fcall, written, pending, terminal, closed>>
    /\ UNCHANGED <<rendered, now, idle, other, sent, suite>>

----------------------------------------------------------------------------
(* The small scenarios *)

Prefixes(s) == {SubSeq(s, 1, n) : n \in 1..Len(s)}

\* literals to look for: what was written, the view, and two that may be absent
Needles ==
    Prefixes(written) \cup ({ViewerString(terminal, TRUE, TRUE)} \ {<<>>})
        \cup {<<"b">>, <<"m">>}

StrArgs ==
    {<<n>> : n \in Needles} \cup {<<>>, <<<<"a">>, <<"b">>>>, <<<<"b">>, <<"a">>>>}

PatArgs ==
    {<<p>> : p \in Patterns}
        \cup {<<>>, <<<<"a">>, <<"b", "$">>>>, <<<<"b", "$">>, <<"a">>>>}

Write == \E str \in Writes : Len(written) + Len(str) <= MaxStream /\ WriteString(str)

CallExpectString == \E str \in StrArgs : ExpectString(str)

CallExpectPattern == \E pattern \in PatArgs : ExpectPattern(pattern)

CallContainsString == \E str \in StrArgs : ContainsString(str)

CallContainsPattern == \E pattern \in PatArgs : ContainsPattern(pattern)

Next ==
    \/ Write
    \/ CallExpectString
    \/ CallExpectPattern
    \/ CallContainsString
    \/ CallContainsPattern
    \/ ExpectReadRune
    \/ ExpectReadError
    \/ ContainsEvaluate

Spec == Init /\ [][Next]_vars

----------------------------------------------------------------------------
(* The literal scenario *)

WriteHi == written = <<>> /\ WriteString(HiText)

ExpectHi == \E s \in HiNeedles : ExpectString(<<s>>)

ContainsHi == \E s \in HiNeedles : ContainsString(<<s>>)

NextHi ==
    \/ WriteHi
    \/ ExpectHi
    \/ ContainsHi
    \/ ExpectReadRune
    \/ ExpectReadError
    \/ ContainsEvaluate

SpecHi == InitHi /\ [][NextHi]_vars

----------------------------------------------------------------------------
(* Patterns that do not compile *)

\* pattern lists with a pattern that regexp.Compile rejects, and without
AnyPatArgs ==
    {<<<<"a">>>>, <<<<"(">>>>, <<<<"*", "a">>>>, <<<<"a">>, <<"(", "a">>>>,
     <<<<"b", "$">>>>}

CallExpectAnyPattern == \E pattern \in AnyPatArgs : ExpectPattern(pattern)

CallContainsAnyPattern == \E pattern \in AnyPatArgs : ContainsPattern(pattern)

NextPanic ==
    \/ Write
    \/ CallExpectAnyPattern
    \/ CallContainsAnyPattern
    \/ ExpectReadRune
    \/ ExpectReadError
    \/ ContainsEvaluate

SpecPanic == Init /\ [][NextPanic]_vars

----------------------------------------------------------------------------
(* The first ContainsPattern: its error names the patterns that failed *)

\* strings.Join(elems, sep) on texts
RECURSIVE Join(_, _)
Join(elems, sep) ==
    IF elems = <<>> THEN <<>>
    ELSE IF Len(elems) = 1 THEN elems[1]
    ELSE elems[1] \o sep \o Join(Tail(elems), sep)

\* PatternError.Error: the message, in pieces
PatternErrorError(p) ==
    LET count == Len(p.FailedPatterns)
        suffix == IF count > 0 THEN <<"s">> ELSE <<>>
    IN  <<"contents failed to match ", ToString(count), " pattern">> \o suffix
            \o <<": ">> \o Join(p.FailedPatterns, <<",", " ">>)

\* faulty variant: only the first pattern that fails is kept
FailedPatternsFirst(regexes, contents) ==
    LET F == {i \in 1..Len(regexes) : ~ReMatch(Compile(regexes[i]), contents)}
    IN  IF F = {} THEN <<>>
        ELSE <<regexes[CHOOSE i \in F : \A k \in F : i <= k]>>

\* the loop over regexes: failed = append(failed, regex.String())
RECURSIVE FailedPatterns(_, _)
FailedPatterns(regexes, contents) ==
    IF regexes = <<>> THEN <<>>
    ELSE LET n == Len(regexes)
             failed == FailedPatterns(SubSeq(regexes, 1, n - 1), contents)
         IN  IF ~ReMatch(Compile(regexes[n]), contents)
             THEN Append(failed, regexes[n])
             ELSE failed

\* ContainsPattern returning an error: regexp.MustCompile, then the flush
ContainsPatternV1(pattern) ==
    IF MustCompile(pattern) THEN Begin("ContainsPatternV1", pattern)
    ELSE Panic("ContainsPatternV1", pattern)

\* ContainsPattern returning an error, after the flush: nil or a PatternError
ContainsPatternV1Evaluate ==
    /\ call.op = "ContainsPatternV1"
    /\ call.pc = "eval"
    /\ LET contents == ViewerString(terminal, TRUE, TRUE)
           failed == FailedPatterns(call.args, contents)
       IN  last' = IF Len(failed) = 0
                   THEN Returned(call, TRUE, "nil", call.buf, Position)
                   ELSE [Returned(call, FALSE, "PatternError", call.buf, Position)
                            EXCEPT !.failed = failed, !.contents = contents]
    /\ call' = NoCall
    /\ UNCHANGED <<columns, rows, built, fcall, written, pending, terminal, closed>>
    /\ UNCHANGED <<rendered, now, idle, other, sent, suite>>

V1Args ==
    {<<>>, <<<<"a">>>>, <<<<"b", "$">>>>, <<<<"a">>, <<"b", "$">>>>,
     <<<<"b", "$">>, <<"a">>, <<"^", "a", "b">>>>,
     <<<<"^", "a", "b">>, <<"a", ".">>, <<"b", "$">>>>}

CallContainsPatternV1 == \E pattern \in V1Args : ContainsPatternV1(pattern)

NextV1 ==
    \/ Write
    \/ CallContainsPatternV1
    \/ ExpectReadRune
    \/ ExpectReadError
    \/ ContainsPatternV1Evaluate

SpecV1 == Init /\ [][NextV1]_vars

----------------------------------------------------------------------------
(* Two goroutines expecting on one Mimic: nothing in Mimic or in console.Expect
   makes one call wait for the other, and both read the one raw stream.  The
   reads of the shared reader are taken one rune at a time. *)

\* the strings the two goroutines expect
TwoArgs == {<<<<"a">>>>, <<<<"b">>>>, <<<<"a", "b">>>>}

\* the first goroutine calls ExpectString
FirstExpectString == \E str \in TwoArgs : ExpectString(str)

\* the second goroutine calls ExpectString: it enters console.Expect whether
\* or not the first goroutine is in a call
OtherExpectString(str) ==
    /\ other.op = "none"
    /\ other' = [op |-> "ExpectString", args |-> str, pc |-> "read", buf |-> <<>>,
                 start |-> Position]
    /\ UNCHANGED <<columns, rows, built, fcall, written, pending, terminal, closed, call, last>>
    /\ UNCHANGED <<rendered, now, idle, sent, suite>>

CallOtherExpectString == \E str \in TwoArgs : OtherExpectString(str)

\* one turn of the loop of console.Expect in the second goroutine, with a rune
OtherReadRune ==
    /\ other.pc = "read"
    /\ ~closed
    /\ pending # <<>>
    /\ LET got == ReadRune(pending)
           buf == Append(other.buf, got.r)
       IN  /\ pending' = got.rest
           /\ other' = IF OptsMatch(Matchers(other), Buffer(buf)) THEN NoCall
                       ELSE [other EXCEPT !.buf = buf]
    /\ UNCHANGED <<columns, rows, built, fcall, written, terminal, closed, call, last>>
    /\ UNCHANGED <<rendered, now, idle, sent, suite>>

\* one turn of the loop of console.Expect in the second goroutine: the read fails
OtherReadError ==
    /\ other.pc = "read"
    /\ closed \/ pending = <<>>
    /\ other' = IF OptsMatch(Matchers(other), ReadError(ReadErr))
                THEN [other EXCEPT !.pc = "eval"]
                ELSE NoCall
    /\ UNCHANGED <<columns, rows, built, fcall, written, pending, terminal, closed, call, last>>
    /\ UNCHANGED <<rendered, now, idle, sent, suite>>

NextTwo ==
    \/ Write
    \/ FirstExpectString
    \/ ExpectReadRune
    \/ ExpectReadError
    \/ CallOtherExpectString
    \/ OtherReadRune
    \/ OtherReadError

SpecTwo == Init /\ [][NextTwo]_vars

----------------------------------------------------------------------------
(* Writes the pty does not take in full *)

\* the error of a write to the pty that fails
ErrWrite == "write error"

\* faulty variant: the terminal is given the bytes the pty took, error or not
ObservedAccepted(msg, num, err) == SubSeq(msg, 1, num)

\* the send observer of NewMimic: what it gives terminal.Write
Observed(msg, num, err) == IF err = "nil" /\ num > 0 THEN msg ELSE <<>>

\* console.Send(msg): the pty takes num bytes of msg and returns err, then the
\* send observer runs
Send(msg, num, err) ==
    /\ written' = written \o SubSeq(msg, 1, num)
    /\ pending' = pending \o SubSeq(msg, 1, num)
    /\ terminal' = TermWrite(terminal, Observed(msg, num, err))
    /\ rendered' = rendered \o Observed(msg, num, err)
    /\ sent' = [msg |-> msg, num |-> num, err |-> err]
    /\ last' = IF num > 0 THEN [last EXCEPT !.quiet = FALSE] ELSE last
    /\ UNCHANGED <<columns, rows, built, fcall, closed, call, now, idle, other, suite>>

\* WriteString(str) returning an error after num bytes: none once the console
\* is closed
WriteStringError(str, num) ==
    /\ str # <<>>
    /\ num < Len(str)
    /\ closed => num = 0
    /\ Send(str, num, ErrWrite)

\* WriteString(""): a write of no bytes fails only on a closed console
WriteStringEmpty == Send(<<>>, 0, IF closed THEN ErrWrite ELSE "nil")

WriteError ==
    \E str \in Writes : \E num \in 0..(Len(str) - 1) :
        Len(written) + num <= MaxStream /\ WriteStringError(str, num)

NextSend ==
    \/ Write
    \/ WriteError
    \/ WriteStringEmpty
    \/ Close
    \/ FirstExpectString
    \/ ExpectReadRune
    \/ ExpectReadError

SpecSend == Init /\ [][NextSend]_vars

----------------------------------------------------------------------------
(* WaitForIdle: the caller, its context and the polling goroutine *)


Tick ==
    /\ now < MaxTime
    /\ now' = now + 1
    /\ UNCHANGED <<columns, rows, built, fcall, written, pending, terminal, closed, call, last>>
    /\ UNCHANGED <<rendered, idle, other, sent, suite>>

\* the frame of the steps of WaitForIdle
IdleFrame ==
    /\ UNCHANGED <<columns, rows, built, fcall, written, pending, terminal, closed, call, last>>
    /\ UNCHANGED <<rendered, now, other, sent, suite>>

\* WaitForIdle(ctx) up to the go statement; ctxDone: ctx is done already
WaitForIdle(ctxDone) ==
    /\ idle.caller = "none"
    /\ idle' = [NoIdle EXCEPT !.caller = "running",
                              !.err = IF ctxDone THEN "Canceled" ELSE "nil",
                              !.deadline = now + MaxIdleWait,
                              !.poll = "start"]
    /\ IdleFrame

\* the caller returns r; the deferred cancel ends the context
Return(i, r) ==
    [i EXCEPT !.caller = "returned", !.result = r,
              !.err = IF i.err = "nil" THEN "Canceled" ELSE i.err]

\* the context ends with error e; a caller parked in the select takes the Done case
ContextDone(i, e) ==
    IF i.caller = "parked" THEN Return([i EXCEPT !.err = e], e)
    ELSE [i EXCEPT !.err = e]

\* the timer of context.WithTimeout fires
Timeout ==
    /\ idle.caller \in {"running", "parked"}
    /\ idle.err = "nil"
    /\ now >= idle.deadline
    /\ idle' = ContextDone(idle, "DeadlineExceeded")
    /\ IdleFrame

\* the context given by the caller is cancelled
Cancel ==
    /\ idle.caller \in {"running", "parked"}
    /\ idle.err = "nil"
    /\ idle' = ContextDone(idle, "Canceled")
    /\ IdleFrame

\* the polling goroutine returns: the deferred close(done)
PollExit(i) == [i EXCEPT !.poll = "exited", !.doneClosed = TRUE]

\* the select of the caller: a case that can proceed is chosen, any one of
\* them when both can; with none the caller parks
Select ==
    /\ idle.caller = "running"
    /\ LET ctxReady == idle.err # "nil"
           sendReady == idle.poll = "send"
           closeReady == idle.doneClosed
       IN  \/ /\ ctxReady
              /\ idle' = Return(idle, idle.err)
           \/ /\ sendReady
              /\ idle' = PollExit(Return(idle, "nil"))
           \/ /\ closeReady
              /\ idle' = Return(idle, "nil")
           \/ /\ ~ctxReady /\ ~sendReady /\ ~closeReady
              /\ idle' = [idle EXCEPT !.caller = "parked"]
    /\ IdleFrame

\* the polling goroutine starts: started := time.Now()
PollStart ==
    /\ idle.poll = "start"
    /\ idle' = [idle EXCEPT !.poll = "check", !.started = now]
    /\ IdleFrame

\* if timeoutContext.Err() != nil { return }
PollCheck ==
    /\ idle.poll = "check"
    /\ idle' = IF idle.err # "nil"
               THEN IF idle.caller = "parked"
                    THEN PollExit(Return(idle, "nil"))
                    ELSE PollExit(idle)
               ELSE [idle EXCEPT !.poll = "compare"]
    /\ IdleFrame

\* history: the polling goroutine reads the cursor as c
Sampled(i, c) ==
    [i EXCEPT !.prev = c, !.since = IF c = i.prev THEN i.since ELSE now]

\* if coord != m.terminal.Cursor() { coord = vt10x.Cursor{}; started = time.Now() }
PollCompare ==
    /\ idle.poll = "compare"
    /\ LET c == Cursor(terminal)
           i == Sampled(idle, c)
       IN  idle' = IF idle.coord # c
                   THEN [i EXCEPT !.poll = "settle", !.coord = EmptyCursor, !.started = now]
                   ELSE [i EXCEPT !.poll = "settle"]
    /\ IdleFrame

\* if coord != emptyCoord && time.Now().Sub(started) >= m.idleDuration
\* { done <- struct{}{}; return }: the send waits for the caller to receive
PollSettle ==
    /\ idle.poll = "settle"
    /\ idle' = IF idle.coord # EmptyCursor /\ now - idle.started >= IdleDuration
               THEN IF idle.caller = "parked"
                    THEN PollExit(Return([idle EXCEPT !.settled = TRUE], "nil"))
                    ELSE [idle EXCEPT !.poll = "send", !.settled = TRUE]
               ELSE [idle EXCEPT !.poll = "sample"]
    /\ IdleFrame

\* coord = m.terminal.Cursor(); time.Sleep(1 * time.Millisecond)
PollSample ==
    /\ idle.poll = "sample"
    /\ LET c == Cursor(terminal)
       IN  idle' = [Sampled(idle, c) EXCEPT !.poll = "sleep", !.coord = c, !.wake = now + 1]
    /\ IdleFrame

\* the sleep ends
PollWake ==
    /\ idle.poll = "sleep"
    /\ now >= idle.wake
    /\ idle' = [idle EXCEPT !.poll = "check"]
    /\ IdleFrame

CallWaitForIdle == \E ctxDone \in BOOLEAN : WaitForIdle(ctxDone)

NextIdle ==
    \/ Write
    \/ Tick
    \/ CallWaitForIdle
    \/ Timeout
    \/ Cancel
    \/ Select
    \/ PollStart
    \/ PollCheck
    \/ PollCompare
    \/ PollSettle
    \/ PollSample
    \/ PollWake

SpecIdle == Init /\ [][NextIdle]_vars

----------------------------------------------------------------------------
(* Text written inside escape sequences *)

\* the reset to the initial state, ESC c
RIS == <<ESC, "c">>

\* texts to wrap; sequences put before and after a text
Texts == {<<"a">>, <<"a", "b">>, <<" ", "a">>, <<"a", "b", "a">>}
Before == {<<>>, SGR}
After == {<<>>, SGR, RIS}

\* the pattern that matches T and nothing else
Anchored(T) == <<"^">> \o T \o <<"$">>

WriteWrapped ==
    /\ written = <<>>
    /\ \E T \in Texts, pre \in Before, post \in After : WriteString(pre \o T \o post)

ContainsText == \E T \in Texts : ContainsString(<<T>>)

ContainsAnchored == \E T \in Texts : ContainsPattern(<<Anchored(T)>>)

NextAnsi ==
    \/ WriteWrapped
    \/ ContainsText
    \/ ContainsAnchored
    \/ ExpectReadRune
    \/ ExpectReadError
    \/ ContainsEvaluate

SpecAnsi == Init /\ [][NextAnsi]_vars

----------------------------------------------------------------------------
(* The view of an instance that may be closed *)

NextClose ==
    \/ Write
    \/ Close
    \/ CallContainsString
    \/ CallContainsPattern
    \/ ExpectReadRune
    \/ ExpectReadError
    \/ ContainsEvaluate

SpecClose == Init /\ [][NextClose]_vars

----------------------------------------------------------------------------
(* console.Expect with the clock: expect.WithTimeout(m.maxIdleWait) is the
   deadline of one read, set again before every read of the loop *)

\* the strings of a Contains call made while a writer writes
FlushArgs == {<<<<"a">>>>, <<<<"b">>>>}

\* console.Expect entered at time now: the first read deadline
BeginAt(op, args) ==
    /\ call.op = "none"
    /\ call' = [op |-> op, args |-> args, pc |-> "read", buf |-> <<>>,
                start |-> Position, began |-> now, deadline |-> now + MaxIdleWait]
    /\ UNCHANGED <<columns, rows, built, fcall, written, pending, terminal, closed, last>>
    /\ UNCHANGED <<rendered, now, idle, other, sent, suite>>

\* ContainsString called at time now
ContainsStringAt == \E str \in FlushArgs : BeginAt("ContainsString", str)

\* ExpectString called at time now
ExpectStringAt == \E str \in FlushArgs : BeginAt("ExpectString", str)

\* one turn of the loop of console.Expect with a rune to read: without a
\* match the next turn sets the read deadline again
ExpectReadRuneAt ==
    /\ call.pc = "read"
    /\ ~closed
    /\ pending # <<>>
    /\ LET got == ReadRune(pending)
           buf == Append(call.buf, got.r)
       IN  /\ pending' = got.rest
           /\ IF OptsMatch(Matchers(call), Buffer(buf))
              THEN /\ last' = Returned(call, TRUE, "nil", buf, Len(written) - Len(got.rest))
                   /\ call' = NoCall
              ELSE /\ call' = [call EXCEPT !.buf = buf, !.deadline = now + MaxIdleWait]
                   /\ last' = last
    /\ UNCHANGED <<columns, rows, built, fcall, written, terminal, closed>>
    /\ UNCHANGED <<rendered, now, idle, other, sent, suite>>

\* one turn of the loop of console.Expect whose read deadline expires
ExpectReadDeadline ==
    /\ call.pc = "read"
    /\ pending = <<>>
    /\ now >= call.deadline
    /\ IF OptsMatch(Matchers(call), ReadError(ErrTimeout))
       THEN /\ call' = [call EXCEPT !.pc = "eval"]
            /\ last' = last
       ELSE /\ last' = Returned(call, FALSE, ErrTimeout, call.buf, Position)
            /\ call' = NoCall
    /\ UNCHANGED <<columns, rows, built, fcall, written, pending, terminal, closed>>
    /\ UNCHANGED <<rendered, now, idle, other, sent, suite>>

\* the clock: a readable rune is read and an expired deadline is acted on
\* before time goes on
TickExpect ==
    /\ now < MaxTime
    /\ call.pc = "read" => pending = <<>> /\ now < call.deadline
    /\ call.pc # "eval"
    /\ now' = now + 1
    /\ UNCHANGED <<columns, rows, built, fcall, written, pending, terminal, closed, call, last>>
    /\ UNCHANGED <<rendered, idle, other, sent, suite>>

NextFlush ==
    \/ Write
    \/ TickExpect
    \/ ContainsStringAt
    \/ ExpectStringAt
    \/ ExpectReadRuneAt
    \/ ExpectReadDeadline
    \/ ContainsEvaluate

SpecFlush == Init /\ [][NextFlush]_vars

----------------------------------------------------------------------------
(* The suite: one testCase a test, made by BeforeTest, and a suite mimic *)

SuiteFrame ==
    /\ UNCHANGED <<columns, rows, built, fcall, written, pending, terminal, closed, call, last>>
    /\ UNCHANGED <<rendered, now, idle, other, sent>>

\* Mimic.Close called by who on instance i
CloseInstance(s, i, who) ==
    [s EXCEPT !.closes[i] = @ + 1, !.closedBy[i] = @ \cup {who}]

\* SetSuiteMimic(m), m nil or an instance that exists
SetSuiteMimic(m) ==
    /\ ~suite.down
    /\ suite' = [suite EXCEPT !.suiteMimic = m, !.shared = @ \cup ({m} \ {0})]
    /\ SuiteFrame

\* SetSuiteMimic with an instance that mimic.NewMimic has just made
SetNewSuiteMimic ==
    /\ ~suite.down
    /\ suite.created < MaxInstances
    /\ LET m == suite.created + 1
       IN  suite' = [suite EXCEPT !.created = m, !.suiteMimic = m, !.shared = @ \cup {m}]
    /\ SuiteFrame

\* BeforeTest(suiteName, testName) for the test of key k
BeforeTest(k) ==
    /\ ~suite.down
    /\ suite.running = "none"
    /\ k \notin suite.done
    /\ suite' = [suite EXCEPT !.testCases[k] = suite.suiteMimic, !.running = k]
    /\ SuiteFrame

\* what Suite.Mimic returns to the test under way
Ret(s, caller, inst, err, panic) ==
    [test |-> s.running, caller |-> caller, inst |-> inst, err |-> err, panic |-> panic]

\* Suite.Mimic(opts...) called from the function whose key is caller; ok:
\* mimic.NewMimic returns no error
SuiteMimic(caller, ok) ==
    /\ suite.running # "none"
    /\ LET known == caller \in Keys /\ suite.testCases[caller] # -1
           id == IF ok THEN suite.created + 1 ELSE 0
           err == IF ok THEN "nil" ELSE "error"
       IN  IF caller = NoKey
           THEN suite' = [suite EXCEPT !.ret = Ret(suite, caller, 0, ErrNoKey, FALSE)]
           ELSE IF known /\ suite.testCases[caller] # 0
           THEN suite' = [suite EXCEPT
                    !.ret = Ret(suite, caller, suite.testCases[caller], "nil", FALSE),
                    !.given[suite.running] =
                        IF @ = 0 THEN suite.testCases[caller] ELSE @]
           ELSE /\ suite.created < MaxInstances
                /\ IF known
                   THEN suite' = [suite EXCEPT
                            !.created = IF ok THEN id ELSE @,
                            !.testCases[caller] = id,
                            !.made[caller] = @ \cup ({id} \ {0}),
                            !.ret = Ret(suite, caller, id, err, FALSE),
                            !.given[suite.running] = IF @ = 0 THEN id ELSE @]
                   ELSE \* b.testCases[key] is nil: NewMimic runs, the store panics
                        suite' = [suite EXCEPT
                            !.created = IF ok THEN id ELSE @,
                            !.ret = Ret(suite, caller, 0, "nil", TRUE)]
    /\ SuiteFrame

\* AfterTest(suiteName, testName) for the test of key k
AfterTest(k) ==
    /\ suite.running = k
    /\ LET v == suite.testCases[k]
           s == [suite EXCEPT !.running = "none", !.done = @ \cup {k}]
       IN  suite' = IF v = -1 THEN s
                    ELSE IF suite.suiteMimic = 0 /\ v # 0
                         THEN CloseInstance(s, v, "AfterTest")
                         ELSE s
    /\ SuiteFrame

\* TearDownSuite
TearDownSuite ==
    /\ ~suite.down
    /\ suite.running = "none"
    /\ LET s == [suite EXCEPT !.down = TRUE, !.downAt = now, !.quit = "closed"]
       IN  suite' = IF suite.suiteMimic # 0
                    THEN CloseInstance(s, suite.suiteMimic, "TearDownSuite")
                    ELSE s
    /\ SuiteFrame

CallSetSuiteMimic == \E m \in 0..suite.created : SetSuiteMimic(m)

CallBeforeTest == \E k \in Keys : BeforeTest(k)

CallSuiteMimic ==
    \E caller \in {suite.running, Helper, NoKey}, ok \in BOOLEAN : SuiteMimic(caller, ok)

CallAfterTest == \E k \in Keys : AfterTest(k)

NextSuite ==
    \/ CallSetSuiteMimic
    \/ SetNewSuiteMimic
    \/ CallBeforeTest
    \/ CallSuiteMimic
    \/ CallAfterTest
    \/ TearDownSuite

SpecSuite == Init /\ [][NextSuite]_vars

----------------------------------------------------------------------------
(* The watchdog of WithMaxRuntime *)

\* the maximum runtime given to WithMaxRuntime, in milliseconds
MaxRuntime == 2

\* WithMaxRuntime(duration) applied by Init: the context with its deadline and
\* the goroutine, which waits in its select
WithMaxRuntime ==
    /\ suite.dog = "none"
    /\ ~suite.down
    /\ suite' = [suite EXCEPT !.deadline = now + MaxRuntime, !.dog = "select"]
    /\ SuiteFrame

\* the clock of the suite
TickSuite ==
    /\ now < MaxTime
    /\ now' = now + 1
    /\ UNCHANGED <<columns, rows, built, fcall, written, pending, terminal, closed, call, last>>
    /\ UNCHANGED <<rendered, idle, other, sent, suite>>

\* the deadline of b.ctx passes
SuiteDeadline ==
    /\ suite.dog # "none"
    /\ suite.ctx = "nil"
    /\ now >= suite.deadline
    /\ suite' = [suite EXCEPT !.ctx = "DeadlineExceeded"]
    /\ SuiteFrame

\* case <-b.quit: cancelFn(), and the loop goes on; b.quit has no sender but
\* the watchdog itself, so the case is ready only when the channel is closed
DogQuit ==
    /\ suite.dog = "select"
    /\ suite.quit = "closed"
    /\ suite' = [suite EXCEPT !.ctx = IF @ = "nil" THEN "Canceled" ELSE @]
    /\ SuiteFrame

\* case <-b.ctx.Done(): on to the log when the deadline was exceeded, else return
DogDone ==
    /\ suite.dog = "select"
    /\ suite.ctx # "nil"
    /\ suite' = [suite EXCEPT
                    !.dog = IF suite.ctx = "DeadlineExceeded" THEN "log" ELSE "exited"]
    /\ SuiteFrame

\* b.T().Log(string(debug.Stack()))
DogLog ==
    /\ suite.dog = "log"
    /\ suite' = [suite EXCEPT !.dog = "errorf", !.log = Append(@, "stack")]
    /\ SuiteFrame

\* b.T().Errorf("Suite exceeded max runtime of %v!", b.maxRuntime)
DogErrorf ==
    /\ suite.dog = "errorf"
    /\ suite' = [suite EXCEPT !.dog = "send", !.log = Append(@, "errorf"),
                              !.failed = TRUE]
    /\ SuiteFrame

\* b.quit <- struct{}{}: nothing receives from b.quit; the send panics once
\* TearDownSuite has closed the channel
DogSend ==
    /\ suite.dog = "send"
    /\ suite.quit = "closed"
    /\ suite' = [suite EXCEPT !.dog = "panic"]
    /\ SuiteFrame

NextDog ==
    \/ WithMaxRuntime
    \/ TickSuite
    \/ SuiteDeadline
    \/ DogQuit
    \/ DogDone
    \/ DogLog
    \/ DogErrorf
    \/ DogSend
    \/ CallBeforeTest
    \/ CallAfterTest
    \/ TearDownSuite

SpecDog == Init /\ [][NextDog]_vars

----------------------------------------------------------------------------
(* NewMimic and its options *)

\* the option lists of the scenarios: none, one option, two options
OptionArgs ==
    {WithSize(2, 3), WithSize(3, 2), WithIdleTimeout(10), WithIdleTimeout(300),
     WithIdleDuration(5), WithIdleDuration(50)}

OptionLists ==
    {<<>>} \cup {<<a>> : a \in OptionArgs}
           \cup {<<a, b>> : a \in OptionArgs, b \in OptionArgs}

InitOptions == \E opts \in OptionLists : NewMimicOf(opts)

NextOptions ==
    \/ Write
    \/ Close

SpecOptions == InitOptions /\ [][NextOptions]_vars

----------------------------------------------------------------------------
(* FlushMatcher as the only matcher of a call, on a stream that may be closed *)

CallFlush == \E str \in FlushArgs : ContainsString(str)

NextSentinel ==
    \/ Write
    \/ Close
    \/ CallFlush
    \/ ExpectReadRune
    \/ ExpectReadError
    \/ ContainsEvaluate

SpecSentinel == Init /\ [][NextSentinel]_vars

----------------------------------------------------------------------------
(* AnyMatcher: Match and Criteria over lists of matchers *)

\* longest list of members
MaxMembers == 3

AnyMembers ==
    {[type |-> "Flush", c |-> <<>>], [type |-> "EOF", c |-> <<>>],
     [type |-> "PlainString", c |-> <<"a">>], [type |-> "PlainString", c |-> <<"b">>],
     [type |-> "Regexp", c |-> <<"a", ".">>]}

AnyLists == UNION {[1..n -> AnyMembers] : n \in 0..MaxMembers}

\* what console.Expect may hand to Match: the bytes read so far, or a read error
AnyValues ==
    {Buffer(b) : b \in Prefixes(written) \cup {<<>>}}
        \cup {ReadError(e) : e \in {ErrTimeout, ErrEOF, ErrClosed}}

AppliedFrame ==
    /\ UNCHANGED <<columns, rows, built, written, pending, terminal, closed, call>>
    /\ UNCHANGED <<last, rendered, now, idle, other, sent, suite>>

\* AnyMatcher{Matchers: Ms}, made once
NewAnyMatcher ==
    /\ fcall.f = "none"
    /\ \E Ms \in AnyLists : fcall' = [f |-> "AnyMatcher", Ms |-> Ms]
    /\ AppliedFrame

AnyMatch ==
    /\ fcall.f # "none"
    /\ \E v \in AnyValues :
           LET r == AnyMatcherMatch(fcall.Ms, v)
           IN  fcall' = [f |-> "AnyMatcher.Match", Ms |-> fcall.Ms, v |-> v,
                         tried |-> r.tried, match |-> r.match]
    /\ AppliedFrame

AnyCriteria ==
    /\ fcall.f # "none"
    /\ fcall' = [f |-> "AnyMatcher.Criteria", Ms |-> fcall.Ms,
                 criterias |-> AnyMatcherCriteria(fcall.Ms)]
    /\ AppliedFrame

NextAny ==
    \/ Write
    \/ NewAnyMatcher
    \/ AnyMatch
    \/ AnyCriteria

SpecAny == Init /\ [][NextAny]_vars

----------------------------------------------------------------------------
(* ContainsString and ContainsPattern step by step: the flush, the snapshot,
   one input after the other, with a writer on another goroutine *)

SnapStrArgs == {<<<<"a">>>>, <<<<"a">>, <<"b">>>>, <<<<"b">>, <<"a">>>>}

SnapPatArgs == {<<>>, <<<<"a">>, <<"b", "$">>>>, <<<<"b", "$">>, <<"a">>>>}

CallSnapString == \E str \in SnapStrArgs : ContainsString(str)

CallSnapPattern == \E pattern \in SnapPatArgs : ContainsPattern(pattern)

\* contents := v.String() with v := Viewer{Mimic: m, StripAnsi: true, Trim: true};
\* samples and judged are history: the snapshots taken, the inputs judged
ContainsSample ==
    /\ call.pc = "eval"
    /\ call' = [op |-> call.op, args |-> call.args, pc |-> "judge", buf |-> call.buf,
                start |-> call.start,
                contents |-> ViewerString(terminal, TRUE, TRUE),
                i |-> 1, failed |-> 0, samples |-> 1, judged |-> <<>>]
    /\ UNCHANGED <<columns, rows, built, fcall, written, pending, terminal, closed, last>>
    /\ UNCHANGED <<rendered, now, idle, other, sent, suite>>

\* one input against contents: matcher.Match(terminalContents) of
\* ContainsString, regex.MatchString(contents) of ContainsPattern
JudgeOne(op, contents, input) ==
    IF op = "ContainsString"
    THEN PlainStringMatcherMatch(Buffer(contents), input)
    ELSE ReMatch(Compile(input), contents)

\* faulty variant: every input is judged against the view of the moment
ContainsJudgeFresh ==
    /\ call.pc = "judge"
    /\ call.i <= Len(call.args)
    /\ LET now_ == ViewerString(terminal, TRUE, TRUE)
           ok == JudgeOne(call.op, now_, call.args[call.i])
       IN  call' = [call EXCEPT !.i = @ + 1,
                                !.failed = IF ok THEN @ ELSE @ + 1,
                                !.judged = Append(@, call.i)]
    /\ UNCHANGED <<columns, rows, built, fcall, written, pending, terminal, closed, last>>
    /\ UNCHANGED <<rendered, now, idle, other, sent, suite>>

\* one turn of the loop over the inputs
ContainsJudge ==
    /\ call.pc = "judge"
    /\ call.i <= Len(call.args)
    /\ LET ok == JudgeOne(call.op, call.contents, call.args[call.i])
       IN  call' = [call EXCEPT !.i = @ + 1,
                                !.failed = IF ok THEN @ ELSE @ + 1,
                                !.judged = Append(@, call.i)]
    /\ UNCHANGED <<columns, rows, built, fcall, written, pending, terminal, closed, last>>
    /\ UNCHANGED <<rendered, now, idle, other, sent, suite>>

\* return failed == 0 of ContainsString; of ContainsPattern true when a
\* pattern was given and none failed
ContainsReturn ==
    /\ call.pc = "judge"
    /\ call.i > Len(call.args)
    /\ LET ok == IF call.op = "ContainsString" THEN call.failed = 0
                 ELSE Len(call.args) > 0 /\ call.failed = 0
       IN  last' = [Returned(call, ok, "nil", call.buf, Position)
                        EXCEPT !.contents = call.contents]
    /\ call' = NoCall
    /\ UNCHANGED <<columns, rows, built, fcall, written, pending, terminal, closed>>
    /\ UNCHANGED <<rendered, now, idle, other, sent, suite>>

NextSnapshot ==
    \/ Write
    \/ CallSnapString
    \/ CallSnapPattern
    \/ ExpectReadRune
    \/ ExpectReadError
    \/ ContainsSample
    \/ ContainsJudge
    \/ ContainsReturn

SpecSnapshot == Init /\ [][NextSnapshot]_vars

----------------------------------------------------------------------------
(* Viewer.String on Viewers with and without a Mimic *)

\* the Viewer values: Mimic is the instance or nil
Viewers == [Mimic : {"m", "nil"}, StripAnsi : BOOLEAN, Trim : BOOLEAN]

ViewWrites == {<<"a">>, <<"b">>, <<" ">>, SGR}

WriteView ==
    \E str \in ViewWrites : Len(written) + Len(str) <= MaxStream /\ WriteString(str)

\* v.String(); original is history: Terminal.String at the time of the call
ViewString ==
    \E v \in Viewers :
        /\ fcall' = [f |-> "Viewer.String", v |-> v,
                     original |-> TerminalString(terminal),
                     result |-> IF v.Mimic = "nil" THEN <<>>
                                ELSE ViewerString(terminal, v.StripAnsi, v.Trim)]
        /\ AppliedFrame

NextViewer ==
    \/ WriteView
    \/ ViewString

SpecViewer == Init /\ [][NextViewer]_vars

----------------------------------------------------------------------------
(* Writes and Expect calls on an instance that may be closed *)

NextShut ==
    \/ Write
    \/ WriteError
    \/ WriteStringEmpty
    \/ Close
    \/ FirstExpectString
    \/ CallExpectAnyPattern
    \/ ExpectReadRune
    \/ ExpectReadError

SpecShut == Init /\ [][NextShut]_vars

----------------------------------------------------------------------------
(* The watchdog under fair scheduling: the goroutine, the clock, the context
   and the test runner all take the steps they can take *)

FairDog ==
    /\ WF_vars(TickSuite)
    /\ WF_vars(SuiteDeadline)
    /\ WF_vars(DogQuit)
    /\ WF_vars(DogDone)
    /\ WF_vars(DogLog)
    /\ WF_vars(DogErrorf)
    /\ WF_vars(DogSend)
    /\ WF_vars(CallAfterTest)
    /\ WF_vars(TearDownSuite)

SpecDogFair == Init /\ [][NextDog]_vars /\ FairDog

----------------------------------------------------------------------------
(* NewMimic step by step, with the failures of creakpty.Open and
   expect.NewConsole; another Mimic is in use meanwhile *)

\* pty, tty, err := creakpty.Open(): on an error NewMimic returns nil and the
\* error, nothing having been opened.  pair: the state of the pty/tty pair
NewMimicOpen ==
    /\ fcall.f = "none" \/ (fcall.f = "NewMimic" /\ fcall.pc = "returned")
    /\ \E ok \in BOOLEAN :
           fcall' = IF ok
                    THEN [f |-> "NewMimic", pc |-> "opened", pair |-> "open",
                          inst |-> "nil", err |-> "nil"]
                    ELSE [f |-> "NewMimic", pc |-> "returned", pair |-> "none",
                          inst |-> "nil", err |-> "open failed"]
    /\ AppliedFrame

\* c, err := expect.NewConsole(consoleOptions...): on an error NewMimic returns
\* nil and the error; else the Mimic, whose console has the pair as closers
NewMimicConsole ==
    /\ fcall.f = "NewMimic"
    /\ fcall.pc = "opened"
    /\ \E ok \in BOOLEAN :
           fcall' = IF ok
                    THEN [fcall EXCEPT !.pc = "returned", !.inst = "mimic"]
                    ELSE [fcall EXCEPT !.pc = "returned", !.err = "console failed"]
    /\ AppliedFrame

NextNew ==
    \/ Write
    \/ Close
    \/ NewMimicOpen
    \/ NewMimicConsole

SpecNew == Init /\ [][NextNew]_vars

----------------------------------------------------------------------------
(* Properties *)

ExpectOps == {"ExpectString", "ExpectPattern"}

ContainsOps == {"ContainsString", "ContainsPattern"}

\* this step is the return of the outstanding call
Returns == call.op # "none" /\ call'.op = "none"

IsPrefix(p, s) == Len(p) <= Len(s) /\ SubSeq(s, 1, Len(p)) = p

\* the bytes of the raw stream w after place from, up to place to
Span(w, from, to) == SubSeq(w, from + 1, to)

\* some prefix of the bytes of w after place from has L in its stripped text
MatchesWithin(w, from, L) ==
    \E e \in (from + 1)..Len(w) : Contains(StripAnsi(Span(w, from, e)), L)

\* criterion i of a returned call c holds on text
CriterionHolds(c, i, text) ==
    IF c.op \in {"ExpectString", "ContainsString"}
    THEN Contains(text, c.args[i])
    ELSE ReMatch(Compile(c.args[i]), text)

\* C1: the bytes a successful expect call is given are the bytes of the raw
\* stream between the place it started and the place it ended; no call starts
\* before the place the call before it ended, so no byte is given to two
\* calls; and a successful expect call that follows a successful expect call
\* starts exactly where that one ended, so no byte is skipped between them.
C1_AtMostOnceAdjacent ==
    [][Returns =>
          /\ last.end <= last'.start
          /\ last'.start <= last'.end
          /\ (last'.op \in ExpectOps /\ last'.ok) =>
                /\ last'.buf = Span(written', last'.start, last'.end)
                /\ (last.op \in ExpectOps /\ last.ok) => last'.start = last.end]_vars

\* a second successful expect call with bytes left pending after it
C1_Witness ==
    /\ call.op = "none"
    /\ last.op \in ExpectOps
    /\ last.ok
    /\ last.start > 0
    /\ last.end > last.start
    /\ pending # <<>>

\* C2: a successful ExpectString(s) has read exactly the shortest prefix of
\* the stream pending at its start whose ANSI-stripped text contains s, and
\* the bytes after that prefix are still pending when it returns.
C2_ShortestPrefix ==
    (last.op = "ExpectString" /\ last.ok /\ Len(last.args) = 1) =>
        LET s == last.args[1]
        IN  /\ last.end <= Len(written)
            /\ last.buf = Span(written, last.start, last.end)
            /\ Contains(StripAnsi(last.buf), s)
            /\ \A e \in last.start..(last.end - 1) :
                  ~Contains(StripAnsi(Span(written, last.start, e)), s)
            /\ call.op = "none" => pending = Span(written, last.end, Len(written))

\* an ExpectString that needed more than one byte and left bytes pending
C2_Witness ==
    /\ call.op = "none"
    /\ last.op = "ExpectString"
    /\ last.ok
    /\ Len(last.args) = 1
    /\ last.end - last.start >= 2
    /\ pending # <<>>

\* the returning call is an ExpectString of the one literal L
ReturnsExpectOf(L) ==
    /\ Returns
    /\ last'.op = "ExpectString"
    /\ last'.args = <<L>>

\* the call before was an ExpectString(L) on a fresh stream that succeeded by
\* reading exactly L, and nothing was written since it returned
AfterFreshExpectOf(L) ==
    /\ last.op = "ExpectString"
    /\ last.args = <<L>>
    /\ last.ok
    /\ last.start = 0
    /\ last.buf = L
    /\ last.quiet

\* C3 as the specification states it: on a fresh stream, ExpectString(L) for
\* a prefix L of what was written succeeds and reads exactly L, and an
\* ExpectString(L) right after it, with nothing written in between, fails.
C3_Original ==
    [][\A L \in Prefixes(written') :
          /\ (ReturnsExpectOf(L) /\ last'.start = 0) =>
                (last'.ok /\ last'.buf = L)
          /\ (ReturnsExpectOf(L) /\ AfterFreshExpectOf(L)) => ~last'.ok]_vars

\* C3: on a fresh stream, ExpectString(L) for a non-empty prefix L of what was
\* written that holds no ANSI escape sequence succeeds and reads exactly L; an
\* ExpectString(L) right after it, with nothing written in between, succeeds
\* when L occurs again in the stripped text of some prefix of the remainder,
\* and fails with the timeout error otherwise.
C3_PrefixThenRemainder ==
    [][\A L \in Prefixes(written') :
          /\ (ReturnsExpectOf(L) /\ last'.start = 0 /\ StripAnsi(L) = L) =>
                (last'.ok /\ last'.buf = L /\ last'.end = Len(L))
          /\ (ReturnsExpectOf(L) /\ AfterFreshExpectOf(L)) =>
                /\ last'.ok = MatchesWithin(written', Len(L), L)
                /\ ~last'.ok => last'.err = ErrTimeout]_vars

\* the second ExpectString(L) is reading the remainder after the first read L
C3_Witness ==
    /\ call.op = "ExpectString"
    /\ call.args = last.args
    /\ call.buf # <<>>
    /\ Len(last.args) = 1
    /\ AfterFreshExpectOf(last.args[1])
    /\ IsPrefix(last.args[1], written)

\* the call before was an expect call that failed on the read timeout
AfterTimedOutExpect ==
    /\ last.op \in ExpectOps
    /\ ~last.ok
    /\ last.err = ErrTimeout

\* C4 as the specification states it: the bytes a timed-out expect call read
\* stay available, so the next ExpectString for a literal that was in those
\* bytes succeeds.
C4_Original ==
    [][\A L \in Prefixes(written') :
          (/\ ReturnsExpectOf(L)
           /\ AfterTimedOutExpect
           /\ Contains(StripAnsi(last.buf), L)) => last'.ok]_vars

\* C4: an expect call that fails on the read timeout has read, and thereby
\* removed from the stream, every byte that was pending: nothing is pending
\* when it returns.  The ExpectString that follows it sees only the bytes
\* written after the timed-out call returned: it succeeds exactly when its
\* literal is in the stripped text of some prefix of those later bytes, so the
\* instance stays usable but the text read by the timed-out call is gone.
C4_TimeoutConsumes ==
    [][/\ (Returns /\ last'.op \in ExpectOps /\ last'.err = ErrTimeout) =>
             /\ ~last'.ok
             /\ pending' = <<>>
             /\ last'.end = Len(written')
             /\ last'.buf = Span(written', last'.start, last'.end)
       /\ \A L \in Prefixes(written') :
             (ReturnsExpectOf(L) /\ AfterTimedOutExpect) =>
                 last'.ok = MatchesWithin(written', last.end, L)]_vars

\* after a timed-out expect call that had read bytes, an ExpectString is
\* reading bytes that were written later
C4_Witness ==
    /\ AfterTimedOutExpect
    /\ last.end > last.start
    /\ call.op = "ExpectString"
    /\ call.start = last.end
    /\ call.buf # <<>>

\* C5: an ExpectString or ExpectPattern call with several criteria returns nil
\* exactly when one of them matches the stripped text of the bytes it read,
\* and at the first byte at which one does; when it returns an error, that is
\* the timeout error and no criterion matched at any byte.
C5_AnyCriterion ==
    last.op \in ExpectOps =>
        LET n == Len(last.args)
            hits(e) == \E i \in 1..n :
                          CriterionHolds(last, i, StripAnsi(Span(written, last.start, e)))
        IN  /\ last.end <= Len(written)
            /\ last.buf = Span(written, last.start, last.end)
            /\ last.ok = (last.end > last.start /\ hits(last.end))
            /\ \A e \in (last.start + 1)..(last.end - 1) : ~hits(e)
            /\ last.ok = (last.err = "nil")
            /\ ~last.ok => last.err = ErrTimeout

\* a call with two criteria succeeded on one of them while the other does not
\* match what it read
C5_Witness ==
    /\ call.op = "none"
    /\ last.op \in ExpectOps
    /\ Len(last.args) = 2
    /\ last.ok
    /\ \E i \in 1..2 : ~CriterionHolds(last, i, StripAnsi(last.buf))

\* this step is a step of an ExpectString or ExpectPattern call: its start, one
\* of its reads, or its return
ExpectStep ==
    /\ call' # call
    /\ call.op \in ExpectOps \/ call'.op \in ExpectOps

\* C6: no step of an ExpectString or ExpectPattern call changes the terminal,
\* so the rendered view, and with it what a Contains call finds, is the same
\* before and after any number of expect calls, whatever they consumed.
C6_ExpectKeepsView ==
    [][ExpectStep =>
          /\ terminal' = terminal
          /\ ViewerString(terminal', TRUE, TRUE) = ViewerString(terminal, TRUE, TRUE)]_vars

\* an ExpectString consumed its literal, and the literal is still in the view
C6_Witness ==
    /\ call.op = "none"
    /\ last.op = "ExpectString"
    /\ last.ok
    /\ Len(last.args) = 1
    /\ Contains(StripAnsi(last.buf), last.args[1])
    /\ Contains(ViewerString(terminal, TRUE, TRUE), last.args[1])

\* C7: a ContainsString or ContainsPattern call that follows a call of the
\* same operation with the same arguments, nothing having been written since
\* that one returned, gives the same result.
C7_ContainsRepeatable ==
    [][(/\ Returns
        /\ last'.op \in ContainsOps
        /\ last.op = last'.op
        /\ last.args = last'.args
        /\ last.quiet) => last'.ok = last.ok]_vars

\* the second of two equal Contains calls has flushed and is about to look at
\* the view, the first having found its text
C7_Witness ==
    /\ call.op \in ContainsOps
    /\ call.pc = "eval"
    /\ last.op = call.op
    /\ last.args = call.args
    /\ last.args # <<>>
    /\ last.ok
    /\ last.quiet
    /\ written # <<>>

\* the text w laid out on lines of width c: a line break after every c-th
\* character that has a character after it
WrapText(w, c) ==
    [i \in 1..(Len(w) + ((Len(w) - 1) \div c)) |->
        IF i % (c + 1) = 0 THEN "\n" ELSE w[i - (i \div (c + 1))]]

\* w is printable characters only
Printable(w) == \A i \in 1..Len(w) : w[i] \in {"a", "b"}

\* C8: after more printable characters than the width were written, without a
\* line break, to an empty view that has room for them, ContainsString(x)
\* succeeds exactly when x is in the written text with a line break put after
\* every columns-th character: a run of columns characters is found, the first
\* columns characters followed by a line break and the rest is found, and an
\* unbroken run longer than the width is not.
C8_WrapAtWidth ==
    (/\ last.op = "ContainsString"
     /\ last.quiet
     /\ Len(last.args) = 1
     /\ Printable(written)
     /\ Len(written) > columns
     /\ Len(written) <= rows * columns) =>
        LET x == last.args[1]
        IN  /\ last.ok = Contains(WrapText(written, columns), x)
            /\ (Len(x) = columns /\ Contains(written, x)) => last.ok
            /\ (Printable(x) /\ Len(x) > columns) => ~last.ok

\* the first columns characters, a line break and the rest were found
C8_Witness ==
    /\ call.op = "none"
    /\ last.op = "ContainsString"
    /\ last.quiet
    /\ last.ok
    /\ Printable(written)
    /\ Len(written) > columns
    /\ last.args = <<SubSeq(written, 1, columns) \o <<"\n">>
                        \o SubSeq(written, columns + 1, Len(written))>>

\* C10: a ContainsString or ContainsPattern call with at least one input that
\* took its snapshot reports success exactly when every one of its inputs is
\* found in the trimmed, ANSI-stripped text of the terminal: every string as a
\* substring, every pattern by regular expression search.
C10_AllInputs ==
    (/\ last.op \in ContainsOps
     /\ last.quiet
     /\ last.err = "nil"
     /\ Len(last.args) >= 1) =>
        LET snapshot == StripAnsi(TrimSpace(TerminalString(terminal)))
        IN  last.ok = \A i \in 1..Len(last.args) : CriterionHolds(last, i, snapshot)

\* a Contains call with two inputs failed although one of them is in the view
C10_Witness ==
    /\ call.op = "none"
    /\ last.op \in ContainsOps
    /\ last.quiet
    /\ Len(last.args) = 2
    /\ ~last.ok
    /\ \E i \in 1..2 :
          CriterionHolds(last, i, StripAnsi(TrimSpace(TerminalString(terminal))))

Hi1 == <<"H", "i">>

Hi15 == Repeat(Hi1, 15)

\* the call before was an ExpectString of the one literal L
AfterExpectOf(L) == last.op = "ExpectString" /\ last.args = <<L>>

\* C9 as the specification states it, on the 24x30 terminal with "Hi" written
\* 16 times: ExpectString("Hi"*16) fails, then ExpectString("Hi"*15) succeeds,
\* then ExpectString("Hi") succeeds on the remainder, and
\* ContainsString("Hi"*16) fails.
C9_Original ==
    [][written' = HiText =>
          /\ (ReturnsExpectOf(HiText) /\ last'.start = 0) => ~last'.ok
          /\ (ReturnsExpectOf(Hi15) /\ AfterExpectOf(HiText) /\ last.start = 0) =>
                last'.ok
          /\ (ReturnsExpectOf(Hi1) /\ AfterExpectOf(Hi15) /\ last.ok) => last'.ok
          /\ (Returns /\ last'.op = "ContainsString" /\ last'.args = <<HiText>>) =>
                ~last'.ok]_vars

\* C9: on the 24x30 terminal with "Hi" written 16 times, ExpectString("Hi"*16)
\* on the fresh stream succeeds and reads all 32 characters, the raw stream
\* having no line break, and an ExpectString("Hi"*15) after it fails; on the
\* fresh stream ExpectString("Hi"*15) succeeds and reads the first 30
\* characters, and the ExpectString("Hi") after it succeeds on the remaining
\* two; ContainsString("Hi"*16) fails, the trimmed view being "Hi"*15, a line
\* break, "Hi".
C9_HiScenario ==
    [][written' = HiText =>
          /\ (ReturnsExpectOf(HiText) /\ last'.start = 0) =>
                (last'.ok /\ last'.end = 32)
          /\ (ReturnsExpectOf(Hi15) /\ AfterExpectOf(HiText) /\ last.ok) =>
                (~last'.ok /\ last'.err = ErrTimeout)
          /\ (ReturnsExpectOf(Hi15) /\ last'.start = 0) =>
                (last'.ok /\ last'.end = 30)
          /\ (ReturnsExpectOf(Hi1) /\ AfterExpectOf(Hi15) /\ last.ok /\ last.start = 0) =>
                (last'.ok /\ last'.start = 30 /\ last'.end = 32)
          /\ (Returns /\ last'.op = "ContainsString" /\ last'.args = <<HiText>>) =>
                /\ ~last'.ok
                /\ ViewerString(terminal', TRUE, TRUE) = Hi15 \o <<"\n">> \o Hi1]_vars

\* ExpectString("Hi") is reading the remainder after ExpectString("Hi"*15)
\* read the first 30 characters
C9_Witness ==
    /\ written = HiText
    /\ AfterExpectOf(Hi15)
    /\ last.ok
    /\ last.start = 0
    /\ last.end = 30
    /\ call.op = "ExpectString"
    /\ call.args = <<Hi1>>
    /\ call.buf = <<"H">>

\* the trimmed, stripped text of the terminal, as Contains reads it
Snapshot(t) == StripAnsi(TrimSpace(TerminalString(t)))

\* C11: the flush of a ContainsString or ContainsPattern call never makes the
\* call fail: however the flush ends, by a read timeout or by the end of a
\* closed stream, the call returns what the snapshot gives, true exactly when
\* every one of its inputs is found in it.
C11_FlushNeverFails ==
    [][(Returns /\ last'.op \in ContainsOps /\ Len(last'.args) >= 1) =>
          /\ last'.err = "nil"
          /\ last'.ok = \A i \in 1..Len(last'.args) :
                           CriterionHolds(last', i, Snapshot(terminal'))]_vars

\* the returning call is ContainsString(T) or ContainsPattern of T anchored
ReturnsContainsOf(T) ==
    /\ Returns
    /\ \/ last'.op = "ContainsString" /\ last'.args = <<T>>
       \/ last'.op = "ContainsPattern" /\ last'.args = <<Anchored(T)>>

\* C12 as the specification states it: for any text T written between any
\* escape sequences, ContainsString(T) and ContainsPattern of T anchored
\* succeed.
C12_Original ==
    [][\A T \in Texts, pre \in Before, post \in After :
          (ReturnsContainsOf(T) /\ written' = pre \o T \o post) => last'.ok]_vars

\* T has no white space at either end
NoEdgeSpace(T) == T # <<>> /\ T[1] \notin WhiteSpace /\ T[Len(T)] \notin WhiteSpace

\* C12: for any text T of printable characters that has no white space at
\* either end and is no longer than a row, written to the empty view with SGR
\* sequences before it, after it or both, ContainsString(T) and
\* ContainsPattern of T anchored succeed, and the snapshot they read is
\* exactly T: no byte of an escape sequence is in it.
C12_SgrWrapped ==
    [][\A T \in Texts, pre \in Before, post \in After \ {RIS} :
          (/\ ReturnsContainsOf(T)
           /\ written' = pre \o T \o post
           /\ NoEdgeSpace(T)
           /\ Len(T) <= columns) =>
              /\ last'.ok
              /\ Snapshot(terminal') = T]_vars

\* ContainsPattern of "ab" anchored succeeded on "ab" written between two SGR
\* sequences
C12_Witness ==
    /\ call.op = "none"
    /\ written = SGR \o <<"a", "b">> \o SGR
    /\ last.op = "ContainsPattern"
    /\ last.args = <<Anchored(<<"a", "b">>)>>
    /\ last.ok

\* C13: WaitForIdle finds the terminal settled only when the cursor was the
\* same at every sample of the polling goroutine over at least idleDuration:
\* every sample that differs from the one before restarts the interval.
C13_SettledOverInterval ==
    idle.settled => now - idle.since >= IdleDuration

\* C14: WaitForIdle returns nil only if the polling goroutine found the
\* terminal settled; when the context ends first it returns the context's error.
C14_NilOnlyIfSettled ==
    idle.result = "nil" => idle.settled

\* C15: while the cursor is at the origin, where it is after construction, the
\* polling goroutine never finds the terminal settled.
C15_OriginNeverSettled ==
    idle.settled => Cursor(terminal) # Cursor(NewTerminal(rows, columns))

\* C16: once WaitForIdle has returned, the polling goroutine is not left
\* waiting to send on its completion channel.
C16_PollNotBlocked ==
    idle.caller = "returned" => idle.poll # "send"

\* C17: ExpectPattern and ContainsPattern given a pattern that does not compile
\* return an error value to the caller: they neither panic nor report the
\* result of a match.
C17_MalformedIsError ==
    (last.op \in {"ExpectPattern", "ContainsPattern"} /\ ~MustCompile(last.args))
        => last.err \notin {"nil", "panic"}

\* C18: when the first ContainsPattern fails on a mismatch, its PatternError
\* lists the supplied patterns that do not match the snapshot, all of them and
\* no other, in the order supplied, and its message joins them in that order;
\* it returns nil when every pattern matches.
C18_PatternErrorLists ==
    [][(Returns /\ call.op = "ContainsPatternV1" /\ call.pc = "eval") =>
          LET contents == Snapshot(terminal')
              missing == SelectSeq(call.args, LAMBDA p : ~ReMatch(Compile(p), contents))
              e == [FailedPatterns |-> last'.failed, Contents |-> last'.contents]
          IN  IF missing = <<>> THEN last'.err = "nil"
              ELSE /\ last'.err = "PatternError"
                   /\ last'.failed = missing
                   /\ last'.contents = contents
                   /\ SubSeq(PatternErrorError(e), 6, Len(PatternErrorError(e)))
                          = Join(missing, <<",", " ">>)]_vars

\* a call with three patterns of which the first and the last fail
C18_Witness ==
    /\ last.op = "ContainsPatternV1"
    /\ last.err = "PatternError"
    /\ Len(last.args) = 3
    /\ last.failed = <<last.args[1], last.args[3]>>

\* C19: at most one blocking match operation is outstanding on the raw stream
\* of a Mimic, also when two goroutines call them on the same Mimic.
C19_OneOutstanding ==
    ~(call.pc = "read" /\ other.pc = "read")

\* C20 as stated: the terminal has received exactly the bytes the raw stream
\* has accepted, in the order of the writes.
C20_Original ==
    rendered = written

\* C20: the terminal receives the text of every write that returns no error,
\* whole and in the order of the writes, and the raw stream has accepted all of
\* it; of a write that returns an error, or of no bytes, the terminal receives
\* nothing, whatever part of it the raw stream accepted.
C20_MirrorsWritesWithoutError ==
    [][(written' # written \/ rendered' # rendered \/ sent' # sent) =>
          LET applied == IF sent'.err = "nil" THEN sent'.msg ELSE <<>>
          IN  /\ rendered' = rendered \o applied
              /\ terminal' = TermWrite(terminal, applied)
              /\ written' = written \o SubSeq(sent'.msg, 1, sent'.num)
              /\ sent'.err = "nil" => sent'.num = Len(sent'.msg)]_vars

\* after a write that was applied, a write has failed part way
C20_Witness ==
    /\ sent.err = ErrWrite
    /\ sent.num > 0
    /\ rendered # <<>>
    /\ rendered # written

\* C21: a ContainsString/ContainsPattern call is in its flush for at most the
\* timeout, counted from the call, also while a writer keeps writing; the
\* snapshot and the evaluation take no time.
C21_FlushWithinTimeout ==
    (call.op \in ContainsOps /\ call.pc \in {"read", "eval"})
        => now <= call.began + MaxIdleWait

\* C22: every call to Suite.Mimic in a test returns, and returns the instance
\* of that test: the one its first call returned, which is the suite mimic
\* when one was set before BeforeTest.
C22_SameInstance ==
    suite.ret.test # "none" =>
        /\ ~suite.ret.panic
        /\ suite.ret.err = "nil" => suite.ret.inst = suite.given[suite.ret.test]

\* C23: when AfterTest has run for a test, every instance Suite.Mimic made for
\* it that was never given to SetSuiteMimic is closed; AfterTest does not close
\* the suite mimic, and TearDownSuite closes it.
C23_ClosedAtTeardown ==
    /\ \A k \in suite.done : \A i \in suite.made[k] \ suite.shared :
           suite.closes[i] > 0
    /\ suite.suiteMimic # 0 => "AfterTest" \notin suite.closedBy[suite.suiteMimic]
    /\ (suite.down /\ suite.suiteMimic # 0) =>
           "TearDownSuite" \in suite.closedBy[suite.suiteMimic]

\* C24: the suite calls Close at most once on each instance.
C24_CloseAtMostOnce ==
    \A i \in Instances : suite.closes[i] <= 1

\* C25: the watchdog marks a test failed only for a deadline that was exceeded,
\* and after it has written the stack trace to the test log; when TearDownSuite
\* has run before the deadline the watchdog marks no test failed.
C25_WatchdogOnlyAfterDeadline ==
    /\ suite.failed => (suite.ctx = "DeadlineExceeded" /\ suite.log[1] = "stack")
    /\ (suite.down /\ suite.downAt < suite.deadline) => ~suite.failed

\* C26 as stated: a Mimic made with no option has 24 rows, 132 columns, an idle
\* timeout of 250 ms and an idle duration of 100 ms
C26_Original ==
    built.opts = <<>> =>
        /\ rows = 24
        /\ columns = 132
        /\ built.maxIdleWait = 250
        /\ built.idleDuration = 100

\* C26: a Mimic made with no option has 24 rows and 132 columns, waits at most
\* 5 s for the terminal to become idle and takes it as idle after 250 ms
C26_Defaults ==
    built.opts = <<>> =>
        /\ rows = 24
        /\ columns = 132
        /\ Len(terminal.lines) = 24
        /\ Len(terminal.lines[1]) = 132
        /\ built.maxIdleWait = 5000
        /\ built.idleDuration = 250

C26_Witness == built.opts = <<>> /\ rendered # <<>> /\ closed

C28_Hits == {i \in 1..Len(fcall.Ms) : MatcherMatch(fcall.Ms[i], fcall.v)}

\* C28: AnyMatcher.Match(v) is true exactly when some member matches v; the
\* members are tried in the order of the list up to the first that matches and
\* no further; with no member it is false.  Criteria is the list of the
\* members' criteria in the order of the list.
C28_AnyInOrder ==
    /\ fcall.f = "AnyMatcher.Match" =>
           /\ fcall.match <=> C28_Hits # {}
           /\ fcall.Ms = <<>> => ~fcall.match
           /\ fcall.match =>
                  /\ fcall.tried \in C28_Hits
                  /\ \A i \in C28_Hits : fcall.tried <= i
           /\ ~fcall.match => fcall.tried = Len(fcall.Ms)
    /\ fcall.f = "AnyMatcher.Criteria" =>
           /\ Len(fcall.criterias) = Len(fcall.Ms)
           /\ \A i \in 1..Len(fcall.Ms) :
                  fcall.criterias[i] = MatcherCriteria(fcall.Ms[i])

\* a Match that the second member of three decided, two members matching
C28_Witness ==
    /\ fcall.f = "AnyMatcher.Match"
    /\ Len(fcall.Ms) = 3
    /\ fcall.match
    /\ fcall.tried = 2
    /\ 3 \in C28_Hits

\* the view of a terminal that has been given everything written to the renderer
C29_ViewNow == ViewerString(TermWrite(NewTerminal(rows, columns), rendered), TRUE, TRUE)

\* C29: a ContainsString or ContainsPattern call takes one snapshot of the view,
\* after its flush, and that snapshot is the view of everything given to the
\* renderer up to then, whatever an earlier call saw; the call keeps this one
\* snapshot while it judges, whatever is written meanwhile; it judges every
\* input once, in order, and its result is what that snapshot gives.
C29_OneSnapshot ==
    [][/\ (call.pc = "eval" /\ call'.pc = "judge") =>
              /\ call'.contents = C29_ViewNow
              /\ call'.samples = 1
       /\ (call.pc = "judge" /\ call'.pc = "judge") =>
              /\ call'.contents = call.contents
              /\ call'.samples = call.samples
       /\ (call.pc = "read" /\ call.op \in ContainsOps) => call'.pc # "judge"
       /\ (call.pc = "judge" /\ call'.op = "none") =>
              /\ call.samples = 1
              /\ call.judged = [i \in 1..Len(call.args) |-> i]
              /\ last'.contents = call.contents
              /\ last'.ok = IF call.op = "ContainsString"
                            THEN EvalString(call.contents, call.args)
                            ELSE EvalPattern(call.contents, call.args)]_vars

\* the second input of a call is about to be judged, the view having changed
\* since the snapshot, after an earlier call that saw another view
C29_Witness ==
    /\ call.pc = "judge"
    /\ call.i = 2
    /\ Len(call.args) = 2
    /\ call.contents # ViewerString(terminal, TRUE, TRUE)
    /\ last.op \in ContainsOps
    /\ last.contents # call.contents

\* s is raw without the white space at its two ends
C30_Trimmed(s, raw) ==
    \/ s = <<>> /\ \A k \in 1..Len(raw) : raw[k] \in WhiteSpace
    \/ \E i, j \in 1..Len(raw) :
          /\ i <= j
          /\ s = SubSeq(raw, i, j)
          /\ raw[i] \notin WhiteSpace
          /\ raw[j] \notin WhiteSpace
          /\ \A k \in 1..Len(raw) : (k < i \/ k > j) => raw[k] \in WhiteSpace

\* C30: Viewer.String gives the text of the terminal as it is when neither Trim
\* nor StripAnsi is set, that text without its ANSI sequences when only
\* StripAnsi is set, that text without the white space at its ends when Trim
\* is set (then without ANSI sequences when StripAnsi is set too), and the
\* empty string for a Viewer with no Mimic.  The call changes nothing but its
\* result, and the same Viewer asked again about the same terminal text gives
\* the same result.
C30_OnlyRequested ==
    [][(fcall' # fcall /\ fcall'.f = "Viewer.String") =>
          LET raw == TerminalString(terminal)
              v == fcall'.v
              s == fcall'.result
          IN  /\ v.Mimic = "nil" => s = <<>>
              /\ (v.Mimic # "nil" /\ ~v.Trim /\ ~v.StripAnsi) => s = raw
              /\ (v.Mimic # "nil" /\ ~v.Trim /\ v.StripAnsi) => s = StripAnsi(raw)
              /\ (v.Mimic # "nil" /\ v.Trim /\ ~v.StripAnsi) => C30_Trimmed(s, raw)
              /\ (v.Mimic # "nil" /\ v.Trim /\ v.StripAnsi) =>
                     \E u \in {TrimSpace(raw)} : C30_Trimmed(u, raw) /\ s = StripAnsi(u)
              /\ terminal' = terminal
              /\ written' = written
              /\ pending' = pending
              /\ (fcall.f = "Viewer.String" /\ fcall.v = v /\ fcall.original = raw) =>
                     s = fcall.result]_vars

\* an untrimmed view of a terminal whose text begins with white space, asked
\* for after a trimmed view of the same text
C30_Witness ==
    /\ fcall.f = "Viewer.String"
    /\ fcall.v.Mimic = "m"
    /\ ~fcall.v.Trim
    /\ fcall.result = TerminalString(terminal)
    /\ fcall.result[1] = " "
    /\ fcall.result[2] = "a"

\* C31: a ContainsString or ContainsPattern call with no input at all returns
\* true, the string variant and the pattern variant alike.
C31_EmptySucceeds ==
    (last.op \in ContainsOps /\ last.args = <<>>) => last.ok

\* C32: the flush of a ContainsString or ContainsPattern call ends only with
\* nothing pending, the call having read every byte written up to then, so the
\* bytes written before the call are gone from the stream.  The ExpectString
\* that follows the call reads only bytes written after the flush ended: it
\* succeeds exactly when its literal is in the stripped text of some prefix of
\* those later bytes.
C32_FlushConsumes ==
    [][/\ (call.op \in ContainsOps /\ call.pc = "read" /\ call'.pc # "read") =>
              /\ call'.pc = "eval"
              /\ pending' = <<>>
              /\ call'.buf = Span(written, call.start, Len(written))
       /\ \A L \in Prefixes(written') :
              (ReturnsExpectOf(L) /\ last.op \in ContainsOps) =>
                  /\ last'.start = last.end
                  /\ last.buf = Span(written', last.start, last.end)
                  /\ last'.ok = MatchesWithin(written', last.end, L)]_vars

\* an ExpectString after a Contains call is reading bytes written after the
\* flush, its literal being in the bytes the flush read
C32_Witness ==
    /\ last.op \in ContainsOps
    /\ last.end > last.start
    /\ call.op = "ExpectString"
    /\ call.start = last.end
    /\ call.buf # <<>>
    /\ Len(call.args) = 1
    /\ Contains(StripAnsi(last.buf), call.args[1])

\* C33: on a closed instance a WriteString or Write returns an error and gives
\* the terminal nothing; an ExpectString or ExpectPattern call ends by
\* returning an error, it reads nothing more; and no call panics.
C33_AfterClose ==
    [][closed =>
          /\ sent' # sent =>
                 /\ sent'.err # "nil"
                 /\ terminal' = terminal
                 /\ rendered' = rendered
          /\ call.op \in ExpectOps =>
                 /\ pending' = pending
                 /\ call' # call => (call'.op = "none" /\ ~last'.ok /\ last'.err = ErrClosed)
          /\ last' # last => last'.err \notin {"nil", "panic"}]_vars

\* C34: the watchdog goroutine of WithMaxRuntime, once started, eventually
\* returns, whether the deadline passes or TearDownSuite closes b.quit first.
C34_WatchdogTerminates == (suite.dog # "none") ~> (suite.dog = "exited")

\* C35: b.quit is never closed while the watchdog is in, or on its way to, its
\* send on b.quit, and the watchdog never sends on the closed channel.
C35_NoSendOnClosedQuit ==
    suite.quit = "closed" => suite.dog \notin {"log", "errorf", "send", "panic"}

\* C36: a call of Suite.Mimic whose caller has no test case (runtime.Caller
\* failed, or the key of the caller is not one BeforeTest stored) returns the
\* error "unable to determine name of calling test function" with no instance,
\* makes no instance, and does not panic.
C36_UnknownCallerIsError ==
    [][(/\ suite'.ret.caller \notin Keys
        /\ suite'.ret.test # "none"
        /\ (suite'.ret # suite.ret \/ suite'.created # suite.created)) =>
          /\ suite'.ret.err = ErrNoKey
          /\ suite'.ret.inst = 0
          /\ ~suite'.ret.panic
          /\ suite'.created = suite.created]_vars

\* C37: a NewMimic that returns an error returns no instance and leaves the
\* pty/tty pair closed, or never opened.
C37_FailureLeavesNothingOpen ==
    (fcall.f = "NewMimic" /\ fcall.pc = "returned" /\ fcall.err # "nil") =>
        /\ fcall.inst = "nil"
        /\ fcall.pair # "open"

====
